---- MODULE Spec2Model ----
(***************************************************************************)
(* Model of the order matcher of src/server/app (class Matcher, file       *)
(* extraTcombTypes.js lines 5-231, and the Order type of order.js).        *)
(*                                                                         *)
(* State: the two order arrays, the ledger, the history, the overhead      *)
(* counter, the wall clock read by moment(), and the outcome of the most   *)
(* recent call (its name, the error it threw, the value it returned).      *)
(* Account ids (uuidv4) are modelled by 1, 2, ... in order of creation.    *)
(* Array.prototype.sort is modelled as a stable sort: every engine sorts   *)
(* arrays of at most 10 elements stably, and the books here are shorter.   *)
(***************************************************************************)
EXTENDS Integers, Sequences, FiniteSets, TLC

\* ---- bounds of the model -------------------------------------------------
MaxUsers == 2
MaxPrice == 2
MaxQty == 3
MaxMoney == 3
MaxStock == 2
MaxTime == 1
MaxOrders == 2
MaxDeepOrders == 3
MaxN == 2

\* ---- order.js -------------------------------------------------------------
BUY == "BUY"
SELL == "SELL"

Order(account, price, quantity, action, time) ==
  [account |-> account, price |-> price, quantity |-> quantity,
   action |-> action, time |-> time]

Balance(money, stock) == [money |-> money, stock |-> stock]

\* faulty variant: the record names the two parties the wrong way round
HistoryEntrySwapped(buyer, seller, buyPrice, sellPrice, quantity, time) ==
  [buyer |-> seller, seller |-> buyer, buyPrice |-> buyPrice,
   sellPrice |-> sellPrice, quantity |-> quantity, time |-> time]

HistoryEntry(buyer, seller, buyPrice, sellPrice, quantity, time) ==
  [buyer |-> buyer, seller |-> seller, buyPrice |-> buyPrice,
   sellPrice |-> sellPrice, quantity |-> quantity, time |-> time]

NoError == "none"
ErrZeroQuantity == "Orders for 0 are not allowed"
ErrBadAction == "Unexpected order action"
ErrNoBuy == "There aren't any buy orders"
ErrNoSell == "There aren't any sell orders"
ErrNoOverlap == "Can't process orders when they don't overlap"

VARIABLES buyOrders, sellOrders, overheadMade, users, history, now, added, ret

vars == <<buyOrders, sellOrders, overheadMade, users, history, now, added, ret>>

Ret(op, err, val) == [op |-> op, err |-> err, val |-> val]

\* ---- sorting (the comparators of getBestBuyOrder / getBestSellOrder) ------
\* a.time.diff(b.time) is the difference of the two instants in milliseconds
TimeDiff(a, b) == a.time - b.time

\* faulty variant: on a price tie the most recent bid comes first
BuyCompareNewestFirst(a, b) ==
  IF 0 # b.price - a.price THEN b.price - a.price ELSE TimeDiff(b, a)

BuyCompare(a, b) ==
  IF 0 # b.price - a.price THEN b.price - a.price ELSE TimeDiff(a, b)

\* faulty variant: on a price tie the most recent ask comes first
SellCompareNewestFirst(a, b) ==
  IF 0 # a.price - b.price THEN a.price - b.price ELSE TimeDiff(b, a)

SellCompare(a, b) ==
  IF 0 # a.price - b.price THEN a.price - b.price ELSE TimeDiff(a, b)

Compare(action, a, b) ==
  IF action = BUY THEN BuyCompare(a, b) ELSE SellCompare(a, b)

\* x goes in front of the first element it is strictly smaller than
RECURSIVE SortedInsert(_, _, _)
SortedInsert(action, s, x) ==
  IF s = <<>> THEN <<x>>
  ELSE IF Compare(action, x, Head(s)) < 0 THEN <<x>> \o s
  ELSE <<Head(s)>> \o SortedInsert(action, Tail(s), x)

RECURSIVE SortFrom(_, _, _)
SortFrom(action, done, rest) ==
  IF rest = <<>> THEN done
  ELSE SortFrom(action, SortedInsert(action, done, Head(rest)), Tail(rest))

ArraySort(action, s) == SortFrom(action, <<>>, s)

\* faulty variant: the head of the array is read but not taken off
ShiftKeeps(s) == s

\* Array.prototype.shift: drops the first element, no-op on an empty array
Shift(s) == IF s = <<>> THEN s ELSE Tail(s)

\* this.buyOrders[0] / this.sellOrders[0] after the sort
BestOf(action, s) == ArraySort(action, s)[1]

\* ---- constructor ----------------------------------------------------------
Init ==
  /\ buyOrders = <<>>
  /\ sellOrders = <<>>
  /\ overheadMade = 0
  /\ users = <<>>
  /\ history = <<>>
  /\ now = 0
  /\ added = 0
  /\ ret = Ret("constructor", NoError, <<>>)

\* the clock behind moment() moves on between calls
Tick ==
  /\ now < MaxTime
  /\ now' = now + 1
  /\ UNCHANGED <<buyOrders, sellOrders, overheadMade, users, history, added, ret>>

\* ---- addUser --------------------------------------------------------------
addUser ==
  /\ Len(users) < MaxUsers
  /\ \E money \in {0, MaxMoney}, stock \in {0, MaxStock} :
       /\ users' = Append(users, Balance(money, stock))
       /\ ret' = Ret("addUser", NoError, Len(users) + 1)
  /\ UNCHANGED <<buyOrders, sellOrders, overheadMade, history, now, added>>

\* ---- addOrder / addOrderPreservingTimestamp -------------------------------
\* faulty variant: the zero-quantity check is missing
addOrderUnchecked(order, bs, ss) ==
  IF order.action = BUY
    THEN [err |-> NoError, buy |-> Append(bs, order), sell |-> ss]
  ELSE IF order.action = SELL
    THEN [err |-> NoError, buy |-> bs, sell |-> Append(ss, order)]
  ELSE [err |-> ErrBadAction, buy |-> bs, sell |-> ss]

addOrderPreservingTimestamp(order, bs, ss) ==
  IF order.quantity = 0
    THEN [err |-> ErrZeroQuantity, buy |-> bs, sell |-> ss]
  ELSE IF order.action = BUY
    THEN [err |-> NoError, buy |-> Append(bs, order), sell |-> ss]
  ELSE IF order.action = SELL
    THEN [err |-> NoError, buy |-> bs, sell |-> Append(ss, order)]
  ELSE [err |-> ErrBadAction, buy |-> bs, sell |-> ss]

\* one call of addOrder with the given Order: the order is stamped with
\* moment() and handed to addOrderPreservingTimestamp
addOrderOf(account, price, quantity, action) ==
  LET order == Order(account, price, quantity, action, now)
      r == addOrderPreservingTimestamp(order, buyOrders, sellOrders)
  IN /\ buyOrders' = r.buy
     /\ sellOrders' = r.sell
     /\ added' = IF r.err = NoError THEN added + 1 ELSE added
     /\ ret' = Ret("addOrder", r.err, <<>>)
     /\ UNCHANGED <<overheadMade, users, history, now>>

Accounts == 1..Len(users)
Prices == 0..MaxPrice
Quantities == {0, 1, MaxQty}

addOrder ==
  /\ added < MaxOrders
  /\ \E account \in Accounts, price \in Prices,
        quantity \in Quantities, action \in {BUY, SELL} :
       addOrderOf(account, price, quantity, action)

\* ---- getBestBuyOrder / getBestSellOrder -----------------------------------
getBestBuyOrder ==
  LET sorted == ArraySort(BUY, buyOrders)
  IN /\ buyOrders' = sorted
     /\ ret' = IF sorted = <<>> THEN Ret("getBestBuyOrder", ErrNoBuy, <<>>)
               ELSE Ret("getBestBuyOrder", NoError, <<sorted[1]>>)
     /\ UNCHANGED <<sellOrders, overheadMade, users, history, now, added>>

getBestSellOrder ==
  LET sorted == ArraySort(SELL, sellOrders)
  IN /\ sellOrders' = sorted
     /\ ret' = IF sorted = <<>> THEN Ret("getBestSellOrder", ErrNoSell, <<>>)
               ELSE Ret("getBestSellOrder", NoError, <<sorted[1]>>)
     /\ UNCHANGED <<buyOrders, overheadMade, users, history, now, added>>

\* ---- getBestNBuyOrders / getBestNSellOrders -------------------------------
\* faulty variant: the slice takes one element more
SliceInclusive(s, n) == SubSeq(s, 1, IF n + 1 < Len(s) THEN n + 1 ELSE Len(s))

\* Array.prototype.slice(0, n) for n >= 0
Slice(s, n) == SubSeq(s, 1, IF n < Len(s) THEN n ELSE Len(s))

\* lines 104-112: the call of getBestBuyOrder sorts the array; its throw on
\* an empty array is caught and answered by an empty list
getBestNBuyOrdersOf(n) ==
  LET sorted == ArraySort(BUY, buyOrders)
  IN /\ buyOrders' = sorted
     /\ ret' = IF sorted = <<>> THEN Ret("getBestNBuyOrders", NoError, <<>>)
               ELSE Ret("getBestNBuyOrders", NoError, Slice(sorted, n))
     /\ UNCHANGED <<sellOrders, overheadMade, users, history, now, added>>

getBestNBuyOrders == \E n \in 0..MaxN : getBestNBuyOrdersOf(n)

\* lines 131-138
getBestNSellOrdersOf(n) ==
  LET sorted == ArraySort(SELL, sellOrders)
  IN /\ sellOrders' = sorted
     /\ ret' = IF sorted = <<>> THEN Ret("getBestNSellOrders", NoError, <<>>)
               ELSE Ret("getBestNSellOrders", NoError, Slice(sorted, n))
     /\ UNCHANGED <<buyOrders, overheadMade, users, history, now, added>>

getBestNSellOrders == \E n \in 0..MaxN : getBestNSellOrdersOf(n)

\* ---- getOrdersByAccount ---------------------------------------------------
\* faulty variant: the filter lets every order through
FilterAll(s, account) == s

\* line 82: filter(o => o.account === account)
FilterByAccount(s, account) ==
  LET Owned(o) == o.account = account
  IN SelectSeq(s, Owned)

\* lines 81-85: no sort, no change of state
getOrdersByAccountOf(account) ==
  /\ ret' = Ret("getOrdersByAccount", NoError,
                FilterByAccount(buyOrders, account)
                  \o FilterByAccount(sellOrders, account))
  /\ UNCHANGED <<buyOrders, sellOrders, overheadMade, users, history, now,
                 added>>

getOrdersByAccount == \E account \in 1..MaxUsers : getOrdersByAccountOf(account)

\* ---- hasFoundOverlap ------------------------------------------------------
\* faulty variant: equal prices count as an overlap
PricesOverlapOrEqual(bestBuyOrder, bestSellOrder) ==
  bestBuyOrder.price >= bestSellOrder.price

PricesOverlap(bestBuyOrder, bestSellOrder) ==
  bestBuyOrder.price > bestSellOrder.price

\* value returned, and the two arrays as the call leaves them: the sell
\* array is not sorted when getBestBuyOrder throws
FoundOverlap(bs, ss) ==
  LET sb == ArraySort(BUY, bs)
      sl == ArraySort(SELL, ss)
  IN IF sb = <<>> THEN [val |-> FALSE, buy |-> sb, sell |-> ss]
     ELSE IF sl = <<>> THEN [val |-> FALSE, buy |-> sb, sell |-> sl]
     ELSE [val |-> PricesOverlap(sb[1], sl[1]), buy |-> sb, sell |-> sl]

hasFoundOverlap ==
  LET r == FoundOverlap(buyOrders, sellOrders)
  IN /\ buyOrders' = r.buy
     /\ sellOrders' = r.sell
     /\ ret' = Ret("hasFoundOverlap", NoError, r.val)
     /\ UNCHANGED <<overheadMade, users, history, now, added>>

\* ---- processOrder ---------------------------------------------------------
Min(a, b) == IF a < b THEN a ELSE b

\* lines 159-162: you can't sell more than you have
StockDelta(bestBuyOrder, bestSellOrder, sellingUser) ==
  IF sellingUser.stock < bestSellOrder.quantity
    THEN sellingUser.stock
    ELSE Min(bestBuyOrder.quantity, bestSellOrder.quantity)

\* faulty variant: the buyer's budget never limits the quantity
AffordableDeltaNoCap(stockDelta, singleBuyCost, buyingUser) == stockDelta

\* lines 177-181: if we don't have enough money for all, how many can we buy?
AffordableDelta(stockDelta, singleBuyCost, buyingUser) ==
  IF buyingUser.money < singleBuyCost * stockDelta
    THEN buyingUser.money \div singleBuyCost
    ELSE stockDelta

\* faulty variant: the exchange keeps the whole amount paid by the buyer
OverheadWholeCost(totalBuyCost, totalSellCost) == totalBuyCost

\* lines 183-186: what the buyer pays beyond what the seller receives
Overhead(totalBuyCost, totalSellCost) == totalBuyCost - totalSellCost

\* lines 188-199: an object literal with two computed keys; when the two
\* keys are the same account the second entry replaces the first
UsersPatch(buyer, seller, buyerBalance, sellerBalance) ==
  [a \in {buyer, seller} |-> IF a = seller THEN sellerBalance ELSE buyerBalance]

\* Balances.update(this.users, { $merge: patch })
Merge(us, patch) ==
  [a \in DOMAIN us |-> IF a \in DOMAIN patch THEN patch[a] ELSE us[a]]

\* faulty variant: the remainder carries the filled quantity
RemainderOfDelta(order, stockDelta) ==
  [order EXCEPT !.quantity = stockDelta]

\* faulty variant: the remainder is stamped again, as addOrder would
RemainderRestamped(order, stockDelta) ==
  [order EXCEPT !.quantity = order.quantity - stockDelta, !.time = now]

\* lines 202-216: the remainder of a partly filled order, time untouched
Remainder(order, stockDelta) ==
  [order EXCEPT !.quantity = order.quantity - stockDelta]

\* faulty variant: the call fails but has already dropped the best ask
processOrderNoOverlapDropsAsk ==
  LET r == FoundOverlap(buyOrders, sellOrders)
  IN /\ ~r.val
     /\ buyOrders' = r.buy
     /\ sellOrders' = Shift(r.sell)
     /\ ret' = Ret("processOrder", ErrNoOverlap, <<>>)
     /\ UNCHANGED <<overheadMade, users, history, now, added>>

\* lines 150-153
processOrderNoOverlap ==
  LET r == FoundOverlap(buyOrders, sellOrders)
  IN /\ ~r.val
     /\ buyOrders' = r.buy
     /\ sellOrders' = r.sell
     /\ ret' = Ret("processOrder", ErrNoOverlap, <<>>)
     /\ UNCHANGED <<overheadMade, users, history, now, added>>

\* faulty variant: the seller has no stock but the bid is the one removed
processOrderEvictSellDropsBid ==
  LET r == FoundOverlap(buyOrders, sellOrders)
  IN /\ r.val
     /\ LET bestBuyOrder == r.buy[1]
            bestSellOrder == r.sell[1]
            sellingUser == users[bestSellOrder.account]
            stockDelta == StockDelta(bestBuyOrder, bestSellOrder, sellingUser)
        IN /\ stockDelta = 0
           /\ buyOrders' = Shift(r.buy)
           /\ sellOrders' = r.sell
     /\ ret' = Ret("processOrder", NoError, <<>>)
     /\ UNCHANGED <<overheadMade, users, history, now, added>>

\* lines 159-167: seller with no stock will clog the market, remove order
processOrderEvictSell ==
  LET r == FoundOverlap(buyOrders, sellOrders)
  IN /\ r.val
     /\ LET bestBuyOrder == r.buy[1]
            bestSellOrder == r.sell[1]
            sellingUser == users[bestSellOrder.account]
            stockDelta == StockDelta(bestBuyOrder, bestSellOrder, sellingUser)
        IN /\ stockDelta = 0
           /\ buyOrders' = r.buy
           /\ sellOrders' = Shift(r.sell)
     /\ ret' = Ret("processOrder", NoError, <<>>)
     /\ UNCHANGED <<overheadMade, users, history, now, added>>

\* faulty variant: the buyer cannot pay but the ask is the one removed
processOrderEvictBuyDropsAsk ==
  LET r == FoundOverlap(buyOrders, sellOrders)
  IN /\ r.val
     /\ LET bestBuyOrder == r.buy[1]
            bestSellOrder == r.sell[1]
            sellingUser == users[bestSellOrder.account]
            buyingUser == users[bestBuyOrder.account]
            stockDelta == StockDelta(bestBuyOrder, bestSellOrder, sellingUser)
            singleBuyCost == bestBuyOrder.price
        IN /\ stockDelta # 0
           /\ buyingUser.money < singleBuyCost
           /\ buyOrders' = r.buy
           /\ sellOrders' = Shift(r.sell)
     /\ ret' = Ret("processOrder", NoError, <<>>)
     /\ UNCHANGED <<overheadMade, users, history, now, added>>

\* lines 169-175: not enough money to buy even one
processOrderEvictBuy ==
  LET r == FoundOverlap(buyOrders, sellOrders)
  IN /\ r.val
     /\ LET bestBuyOrder == r.buy[1]
            bestSellOrder == r.sell[1]
            sellingUser == users[bestSellOrder.account]
            buyingUser == users[bestBuyOrder.account]
            stockDelta == StockDelta(bestBuyOrder, bestSellOrder, sellingUser)
            singleBuyCost == bestBuyOrder.price
        IN /\ stockDelta # 0
           /\ buyingUser.money < singleBuyCost
           /\ buyOrders' = Shift(r.buy)
           /\ sellOrders' = r.sell
     /\ ret' = Ret("processOrder", NoError, <<>>)
     /\ UNCHANGED <<overheadMade, users, history, now, added>>

\* lines 177-229
processOrderTrade ==
  LET r == FoundOverlap(buyOrders, sellOrders)
  IN /\ r.val
     /\ LET bestBuyOrder == r.buy[1]
            bestSellOrder == r.sell[1]
            sellingUser == users[bestSellOrder.account]
            buyingUser == users[bestBuyOrder.account]
            cappedDelta == StockDelta(bestBuyOrder, bestSellOrder, sellingUser)
            singleBuyCost == bestBuyOrder.price
            stockDelta == AffordableDelta(cappedDelta, singleBuyCost, buyingUser)
            totalBuyCost == singleBuyCost * stockDelta
            totalSellCost == stockDelta * bestSellOrder.price
            overhead == Overhead(totalBuyCost, totalSellCost)
            usersPatch ==
              UsersPatch(bestBuyOrder.account, bestSellOrder.account,
                         Balance(buyingUser.money - totalBuyCost,
                                 buyingUser.stock + stockDelta),
                         Balance(sellingUser.money + totalSellCost,
                                 sellingUser.stock - stockDelta))
            a1 == IF stockDelta < bestBuyOrder.quantity
                    THEN addOrderPreservingTimestamp(
                           Remainder(bestBuyOrder, stockDelta), r.buy, r.sell)
                    ELSE [err |-> NoError, buy |-> r.buy, sell |-> r.sell]
            a2 == IF stockDelta < bestSellOrder.quantity
                    THEN addOrderPreservingTimestamp(
                           Remainder(bestSellOrder, stockDelta), a1.buy, a1.sell)
                    ELSE a1
        IN /\ cappedDelta # 0
           /\ ~(buyingUser.money < singleBuyCost)
           /\ overheadMade' = overheadMade + overhead
           /\ users' = Merge(users, usersPatch)
           /\ buyOrders' = Shift(a2.buy)
           /\ sellOrders' = Shift(a2.sell)
           /\ history' = Append(history,
                HistoryEntry(bestBuyOrder.account, bestSellOrder.account,
                             bestBuyOrder.price, bestSellOrder.price,
                             stockDelta, now))
     /\ ret' = Ret("processOrder", NoError, <<>>)
     /\ UNCHANGED <<now, added>>

processOrder ==
  \/ processOrderNoOverlap
  \/ processOrderEvictSell
  \/ processOrderEvictBuy
  \/ processOrderTrade

Next ==
  \/ Tick
  \/ addUser
  \/ addOrder
  \/ getBestBuyOrder
  \/ getBestSellOrder
  \/ hasFoundOverlap
  \/ processOrder

Spec == Init /\ [][Next]_vars

\* the program with its three list queries in place of the two single-order
\* queries
NextQuery ==
  \/ Tick
  \/ addUser
  \/ addOrder
  \/ getBestNBuyOrders
  \/ getBestNSellOrders
  \/ getOrdersByAccount
  \/ hasFoundOverlap
  \/ processOrder

SpecQuery == Init /\ [][NextQuery]_vars

\* ---- a second specification: three orders between two funded accounts ----
\* The state after two addUser(MaxMoney, MaxStock) calls; orders carry a
\* positive quantity.
InitDeep ==
  /\ buyOrders = <<>>
  /\ sellOrders = <<>>
  /\ overheadMade = 0
  /\ users = <<Balance(MaxMoney, MaxStock), Balance(MaxMoney, MaxStock)>>
  /\ history = <<>>
  /\ now = 0
  /\ added = 0
  /\ ret = Ret("addUser", NoError, 2)

addOrderDeep ==
  /\ added < MaxDeepOrders
  /\ \E account \in Accounts, price \in Prices,
        quantity \in Quantities \ {0}, action \in {BUY, SELL} :
       addOrderOf(account, price, quantity, action)

NextDeep ==
  \/ Tick
  \/ addOrderDeep
  \/ getBestBuyOrder
  \/ getBestSellOrder
  \/ hasFoundOverlap
  \/ processOrder

SpecDeep == InitDeep /\ [][NextDeep]_vars

\* The caller's loop "while hasFoundOverlap() do processOrder()" next to the
\* submission of orders, within one clock instant: every call runs to
\* completion (lines 150-230 have no suspension point), so a caller that
\* keeps calling gets its processOrder step.
NextLive ==
  \/ addOrderDeep
  \/ hasFoundOverlap
  \/ processOrder

SpecLive == InitDeep /\ [][NextLive]_vars /\ WF_vars(processOrder)

\* ==== properties ==========================================================
Range(s) == {s[i] : i \in DOMAIN s}

\* the orders of a book with their multiplicities, whatever the array order
BagOf(s) == [o \in Range(s) |-> Cardinality({i \in DOMAIN s : s[i] = o})]

\* the book s with one occurrence of order o taken out / with o put in
IsBookMinus(t, s, o) ==
  /\ o \in Range(s)
  /\ Len(t) = Len(s) - 1
  /\ \A x \in Range(s) :
       LET n == IF x \in Range(t) THEN BagOf(t)[x] ELSE 0
       IN n = BagOf(s)[x] - (IF x = o THEN 1 ELSE 0)

MaxBidPrice(bs) ==
  CHOOSE p \in {o.price : o \in Range(bs)} : \A o \in Range(bs) : o.price <= p

MinAskPrice(ss) ==
  CHOOSE p \in {o.price : o \in Range(ss)} : \A o \in Range(ss) : p <= o.price

\* the overlap condition as the specification words it
Crossing(bs, ss) ==
  /\ bs # <<>>
  /\ ss # <<>>
  /\ MaxBidPrice(bs) > MinAskPrice(ss)

\* the step is a call of op (the clock does not move during a call)
Called(op) == ret'.op = op /\ now' = now

\* the step is a processOrder call that recorded a trade
Traded == Called("processOrder") /\ Len(history') = Len(history) + 1

LastTrade(h) == h[Len(h)]

\* ---- C1 -------------------------------------------------------------------
\* C1: in every state reachable by addUser (money, stock >= 0), addOrder
\* (quantity > 0, price >= 0, existing account) and processOrder calls, every
\* account's money and every account's stock is >= 0.
C1_BalancesNonNegative ==
  \A a \in DOMAIN users : users[a].money >= 0 /\ users[a].stock >= 0

\* a trade was cut down to what the buyer could pay: the buyer is left with
\* less than one unit's price and the rest of its bid is back in the book
C1_Witness ==
  /\ Len(history) = 1
  /\ history[1].buyer # history[1].seller
  /\ users[history[1].buyer].money < history[1].buyPrice
  /\ \E o \in Range(buyOrders) :
       o.account = history[1].buyer /\ o.quantity = MaxQty - history[1].quantity

\* ---- C2 -------------------------------------------------------------------
\* C2: on every processOrder step that records a trade of quantity qty
\* between the best bid and the best ask, whichever accounts own the two
\* orders, the buyer's money goes down by qty * bestBuy.price, the seller's
\* money goes up by qty * bestSell.price (an account that is both gets both
\* movements), and the overhead goes up by the difference of the two amounts.
C2_MoneyMoves ==
  [][Traded =>
       LET bestBuyOrder == BestOf(BUY, buyOrders)
           bestSellOrder == BestOf(SELL, sellOrders)
           qty == LastTrade(history').quantity
           cost == qty * bestBuyOrder.price
           proceeds == qty * bestSellOrder.price
       IN /\ \A a \in {bestBuyOrder.account, bestSellOrder.account} :
               users'[a].money =
                 users[a].money
                   - (IF a = bestBuyOrder.account THEN cost ELSE 0)
                   + (IF a = bestSellOrder.account THEN proceeds ELSE 0)
          /\ overheadMade' = overheadMade + (cost - proceeds)]_vars

\* ---- C3 -------------------------------------------------------------------
\* C3: on every processOrder step that records a trade, whichever accounts
\* own the matched bid and ask, the buyer's stock goes up by the quantity of
\* the trade record and the seller's stock goes down by that same quantity
\* (an account that is both gets both movements).
C3_StockMoves ==
  [][Traded =>
       LET buyer == BestOf(BUY, buyOrders).account
           seller == BestOf(SELL, sellOrders).account
           qty == LastTrade(history').quantity
       IN \A a \in {buyer, seller} :
            users'[a].stock =
              users[a].stock + (IF a = buyer THEN qty ELSE 0)
                             - (IF a = seller THEN qty ELSE 0)]_vars

\* ---- C4 -------------------------------------------------------------------
\* C4: in every reachable state hasFoundOverlap() is true exactly when both
\* books are non-empty and the highest bid price is strictly greater than the
\* lowest ask price; a call of it returns that value.
C4_OverlapIffCrossing ==
  /\ FoundOverlap(buyOrders, sellOrders).val = Crossing(buyOrders, sellOrders)
  /\ ret.op = "hasFoundOverlap" =>
       /\ ret.err = NoError
       /\ ret.val = Crossing(buyOrders, sellOrders)

\* hasFoundOverlap() answered false on two books whose best prices are equal
C4_Witness ==
  /\ ret.op = "hasFoundOverlap"
  /\ ret.val = FALSE
  /\ buyOrders # <<>>
  /\ sellOrders # <<>>
  /\ MaxBidPrice(buyOrders) = MinAskPrice(sellOrders)

\* ---- C5 -------------------------------------------------------------------
IsBestBid(o, bs) ==
  /\ o \in Range(bs)
  /\ \A x \in Range(bs) :
       /\ x.price <= o.price
       /\ x.price = o.price => o.time <= x.time

IsBestAsk(o, ss) ==
  /\ o \in Range(ss)
  /\ \A x \in Range(ss) :
       /\ o.price <= x.price
       /\ x.price = o.price => o.time <= x.time

C7_NoOverlapFailsCleanly ==
  [][(Called("processOrder") /\ ~Crossing(buyOrders, sellOrders)) =>
       /\ ret'.err = ErrNoOverlap
       /\ BagOf(buyOrders') = BagOf(buyOrders)
       /\ BagOf(sellOrders') = BagOf(sellOrders)
       /\ UNCHANGED <<users, history, overheadMade>>]_vars

\* processOrder threw on two non-empty books whose best prices are equal
C7_Witness ==
  /\ ret.op = "processOrder"
  /\ ret.err = ErrNoOverlap
  /\ buyOrders # <<>>
  /\ sellOrders # <<>>
  /\ MaxBidPrice(buyOrders) = MinAskPrice(sellOrders)

\* ---- C8 -------------------------------------------------------------------
\* C8: addOrder with quantity 0 throws and leaves both books, the ledger, the
\* history and the overhead unchanged; addOrder with quantity > 0 and action
\* BUY (resp. SELL) puts exactly one order with the given account, price and
\* quantity at the end of the bid (resp. ask) book and leaves the other book,
\* the ledger, the history and the overhead unchanged, whatever the balance
\* of the account.
C8_Admission ==
  [][\A account \in Accounts, price \in Prices,
        quantity \in Quantities, action \in {BUY, SELL} :
       addOrderOf(account, price, quantity, action) =>
         IF quantity = 0
           THEN /\ ret'.err = ErrZeroQuantity
                /\ UNCHANGED <<buyOrders, sellOrders, users, history, overheadMade>>
           ELSE /\ ret'.err = NoError
                /\ UNCHANGED <<users, history, overheadMade>>
                /\ LET o == Order(account, price, quantity, action, now)
                   IN IF action = BUY
                        THEN /\ Len(buyOrders') = Len(buyOrders) + 1
                             /\ buyOrders' = Append(buyOrders, o)
                             /\ sellOrders' = sellOrders
                        ELSE /\ Len(sellOrders') = Len(sellOrders) + 1
                             /\ sellOrders' = Append(sellOrders, o)
                             /\ buyOrders' = buyOrders]_vars

\* a bid of an account without money is in the book, and an order for 0 has
\* just been refused
C8_Witness ==
  /\ ret.op = "addOrder"
  /\ ret.err = ErrZeroQuantity
  /\ buyOrders # <<>>
  /\ buyOrders[1].price > 0
  /\ users[buyOrders[1].account].money = 0

\* ---- C9 -------------------------------------------------------------------
\* the number of orders of book s with the price and the timestamp of o
SamePriceAndTime(s, o) ==
  Cardinality({i \in DOMAIN s : s[i].price = o.price /\ s[i].time = o.time})

\* the first place of order o in the array s
Position(s, o) == CHOOSE i \in DOMAIN s : s[i] = o /\ \A j \in 1..(i - 1) : s[j] # o

\* what the claim demands of one side after a partial fill of its best order
\* `best`: the remainder is in the book with the account, price and
\* timestamp of `best`, it sorts ahead of every order of the same price with
\* a strictly later timestamp, and it is the best order when no other order
\* has its price and its timestamp
RemainderRanks(action, best, qty, after) ==
  LET rem == [best EXCEPT !.quantity = best.quantity - qty]
      sorted == ArraySort(action, after)
  IN /\ rem \in Range(after)
     /\ \A y \in Range(after) :
          (y.price = rem.price /\ y.time > rem.time) =>
             Position(sorted, rem) < Position(sorted, y)
     /\ SamePriceAndTime(after, rem) = 1 => BestOf(action, after) = rem

\* C9 (amended): when a processOrder step fills an order only partially, the
\* remainder left in the book carries the original order's account, price and
\* timestamp, so it ranks ahead of every same-price order of its side with a
\* strictly later timestamp, and the best order of that side is the remainder
\* whenever no other order of the side has the same price and timestamp.
C9_RemainderKeepsTimestamp ==
  [][Traded =>
       LET bestBuyOrder == BestOf(BUY, buyOrders)
           bestSellOrder == BestOf(SELL, sellOrders)
           qty == LastTrade(history').quantity
       IN /\ qty < bestBuyOrder.quantity =>
               RemainderRanks(BUY, bestBuyOrder, qty, buyOrders')
          /\ qty < bestSellOrder.quantity =>
               RemainderRanks(SELL, bestSellOrder, qty, sellOrders')]_vars

\* a bid was partly filled and its remainder shares the book with a bid of
\* the same price and a later timestamp
C9_Witness ==
  /\ ret.op = "processOrder"
  /\ history # <<>>
  /\ \E i, j \in DOMAIN buyOrders :
       /\ buyOrders[i].quantity = MaxQty - LastTrade(history).quantity
       /\ buyOrders[i].account = LastTrade(history).buyer
       /\ buyOrders[i].price = buyOrders[j].price
       /\ buyOrders[i].time < buyOrders[j].time

\* C9 as claimed: after a partial fill the remainder still ranks ahead of
\* every same-price order of its side submitted after the original, so the
\* best order of that side is the remainder.  Stated for the first trade,
\* between two different accounts and for no more than either order asks:
\* the books then hold submitted orders only, kept in submission order among
\* equal keys, and everything behind the best order with its price was
\* submitted after it.
C9_RemainderStaysBest ==
  [][(Traded /\ history = <<>>) =>
       LET bestBuyOrder == BestOf(BUY, buyOrders)
           bestSellOrder == BestOf(SELL, sellOrders)
           qty == LastTrade(history').quantity
       IN (/\ bestBuyOrder.account # bestSellOrder.account
           /\ qty <= bestBuyOrder.quantity
           /\ qty <= bestSellOrder.quantity) =>
            /\ qty < bestBuyOrder.quantity =>
                 BestOf(BUY, buyOrders') =
                   [bestBuyOrder EXCEPT !.quantity = bestBuyOrder.quantity - qty]
            /\ qty < bestSellOrder.quantity =>
                 BestOf(SELL, sellOrders') =
                   [bestSellOrder EXCEPT !.quantity = bestSellOrder.quantity - qty]]_vars

\* ---- C10 ------------------------------------------------------------------
\* C10: when the books overlap and the owner of the best ask has stock 0, one
\* processOrder call removes exactly that ask from the ask book and nothing
\* else changes: no trade record, every balance, the bid book and the
\* overhead as before.
C10_SellerWithoutStockEvicted ==
  [][(/\ Called("processOrder")
      /\ Crossing(buyOrders, sellOrders)
      /\ users[BestOf(SELL, sellOrders).account].stock = 0) =>
       /\ ret'.err = NoError
       /\ IsBookMinus(sellOrders', sellOrders, BestOf(SELL, sellOrders))
       /\ BagOf(buyOrders') = BagOf(buyOrders)
       /\ UNCHANGED <<users, history, overheadMade>>]_vars

\* processOrder has just returned without a trade, the ask of the two
\* submitted orders is gone and the bid is still there
C10_Witness ==
  /\ ret.op = "processOrder"
  /\ ret.err = NoError
  /\ history = <<>>
  /\ added = 2
  /\ sellOrders = <<>>
  /\ Len(buyOrders) = 1

\* ---- C11 ------------------------------------------------------------------
\* C11: when the books overlap, the owner of the best ask has stock to
\* deliver and the owner of the best bid has less money than the bid's price,
\* one processOrder call removes exactly that bid from the bid book and
\* nothing else changes: no trade record, every balance, the ask book and the
\* overhead as before; the next bid in priority order becomes the best bid.
C11_BuyerWithoutMoneyEvicted ==
  [][(/\ Called("processOrder")
      /\ Crossing(buyOrders, sellOrders)
      /\ users[BestOf(SELL, sellOrders).account].stock > 0
      /\ users[BestOf(BUY, buyOrders).account].money
           < BestOf(BUY, buyOrders).price) =>
       /\ ret'.err = NoError
       /\ IsBookMinus(buyOrders', buyOrders, BestOf(BUY, buyOrders))
       /\ BagOf(sellOrders') = BagOf(sellOrders)
       /\ UNCHANGED <<users, history, overheadMade>>
       /\ Len(buyOrders) >= 2 =>
            BestOf(BUY, buyOrders') = ArraySort(BUY, buyOrders)[2]]_vars

\* the one trade came before the bid now in the book was submitted, and the
\* last processOrder call returned without a trade: it removed the rest of
\* the traded bid, whose owner could not pay for another unit, and left the
\* later bid and the ask
C11_Witness ==
  /\ ret.op = "processOrder"
  /\ ret.err = NoError
  /\ added = 3
  /\ Len(history) = 1
  /\ Len(buyOrders) = 1
  /\ Len(sellOrders) = 1
  /\ buyOrders[1].time > history[1].time
  /\ users[history[1].buyer].money < history[1].buyPrice

\* ---- C12 ------------------------------------------------------------------
\* the quantity of a step after the cap by the seller's holdings
SellerCappedQuantity(bid, ask, seller) ==
  IF seller.stock < ask.quantity
    THEN seller.stock
    ELSE IF bid.quantity <= ask.quantity THEN bid.quantity ELSE ask.quantity

\* the largest quantity whose cost at this price does not exceed the money
LargestAffordable(money, price) ==
  CHOOSE k \in 0..money : k * price <= money /\ (k + 1) * price > money

\* the budget cap applies to a processOrder call in this state: the buyer can
\* pay for one unit but not for the quantity left by the seller cap
BudgetCapApplies ==
  /\ Crossing(buyOrders, sellOrders)
  /\ LET bid == BestOf(BUY, buyOrders)
         ask == BestOf(SELL, sellOrders)
         q == SellerCappedQuantity(bid, ask, users[ask.account])
     IN /\ q > 0
        /\ users[bid.account].money >= bid.price
        /\ users[bid.account].money < q * bid.price

\* C12: when the buyer can pay for one unit at its own limit price but not
\* for the quantity left by the seller cap, the step trades
\* floor(buyer.money / bestBuy.price), the largest quantity the buyer's money
\* pays for at its limit price, and the buyer is charged that quantity times
\* its own limit price (an account that is also the seller receives the
\* proceeds as well).
C12_BudgetCap ==
  [][(Called("processOrder") /\ BudgetCapApplies) =>
       LET bid == BestOf(BUY, buyOrders)
           ask == BestOf(SELL, sellOrders)
           k == LargestAffordable(users[bid.account].money, bid.price)
       IN /\ Traded
          /\ LastTrade(history').quantity = k
          /\ users'[bid.account].money =
               users[bid.account].money - k * bid.price
                 + (IF ask.account = bid.account THEN k * ask.price ELSE 0)]_vars

\* ---- C13 ------------------------------------------------------------------
\* a processOrder call in this state trades: the books cross, the seller cap
\* leaves a positive quantity and the buyer can pay for one unit
TradeDue ==
  /\ Crossing(buyOrders, sellOrders)
  /\ LET bid == BestOf(BUY, buyOrders)
         ask == BestOf(SELL, sellOrders)
     IN /\ SellerCappedQuantity(bid, ask, users[ask.account]) > 0
        /\ users[bid.account].money >= bid.price

\* the quantity such a call trades: the seller-capped quantity, cut down to
\* what the buyer's money pays for at the bid's price
MatchedQuantity ==
  LET bid == BestOf(BUY, buyOrders)
      ask == BestOf(SELL, sellOrders)
      q == SellerCappedQuantity(bid, ask, users[ask.account])
  IN IF users[bid.account].money < q * bid.price
       THEN LargestAffordable(users[bid.account].money, bid.price)
       ELSE q

\* C13: the trade history is append-only and in execution order: a
\* processOrder step that trades appends exactly one record (buyer = owner of
\* the best bid, seller = owner of the best ask, buyPrice and sellPrice = the
\* two limit prices, quantity = the matched quantity, stamped with the
\* current time) at the end; every other step (evictions, failed calls,
\* addOrder, the queries, the clock) leaves the history as it is, so the old
\* history is always a prefix of the new one.
C13_HistoryAppendOnly ==
  [][IF Called("processOrder") /\ TradeDue
       THEN LET bid == BestOf(BUY, buyOrders)
                ask == BestOf(SELL, sellOrders)
            IN /\ Len(history') = Len(history) + 1
               /\ SubSeq(history', 1, Len(history)) = history
               /\ LastTrade(history').buyer = bid.account
               /\ LastTrade(history').seller = ask.account
               /\ LastTrade(history').buyPrice = bid.price
               /\ LastTrade(history').sellPrice = ask.price
               /\ LastTrade(history').quantity = MatchedQuantity
               /\ LastTrade(history').time = now
       ELSE history' = history]_vars

C13_Witness ==
  /\ Len(history) = 2
  /\ history[1].buyer # history[1].seller
  /\ history[2].time > history[1].time
  /\ Len(buyOrders) + Len(sellOrders) = 1

\* ---- C14 ------------------------------------------------------------------
RECURSIVE SumOverhead(_)
SumOverhead(h) ==
  IF h = <<>>
    THEN 0
    ELSE LET e == h[Len(h)]
         IN SumOverhead(SubSeq(h, 1, Len(h) - 1))
              + e.quantity * (e.buyPrice - e.sellPrice)

\* C14: in every reachable state overheadMade equals the sum, over all
\* records of the history, of quantity * (buyPrice - sellPrice); it is 0
\* before any trade and changes only in processOrder steps that trade.
C14_OverheadIsSum ==
  /\ [](overheadMade = SumOverhead(history))
  /\ [][overheadMade' # overheadMade => Traded]_vars

C14_Witness ==
  /\ Len(history) = 2
  /\ overheadMade = SumOverhead(history)
  /\ history[1].quantity * (history[1].buyPrice - history[1].sellPrice) > 0
  /\ history[2].quantity * (history[2].buyPrice - history[2].sellPrice) > 0

\* ---- C15 ------------------------------------------------------------------
RECURSIVE SumQuantity(_)
SumQuantity(s) ==
  IF s = <<>> THEN 0 ELSE s[1].quantity + SumQuantity(Tail(s))

\* the total open quantity in the two books
OpenQuantity(bs, ss) == SumQuantity(bs) + SumQuantity(ss)

\* one order left the books and nothing took its place
RemovedWithoutReplacement ==
  /\ Len(buyOrders') + Len(sellOrders') = Len(buyOrders) + Len(sellOrders) - 1
  /\ \/ /\ BagOf(sellOrders') = BagOf(sellOrders)
        /\ \E i \in 1..Len(buyOrders) :
             IsBookMinus(buyOrders', buyOrders, buyOrders[i])
     \/ /\ BagOf(buyOrders') = BagOf(buyOrders)
        /\ \E i \in 1..Len(sellOrders) :
             IsBookMinus(sellOrders', sellOrders, sellOrders[i])

\* C15: when the caller keeps calling processOrder while the books cross, a
\* state without overlap is reached after finitely many calls: every
\* processOrder step on crossing books either removes an order without
\* replacement or strictly reduces the total open quantity in the books (and
\* never raises it), and no other step but addOrder raises it.
C15_SettlementTerminates ==
  /\ Crossing(buyOrders, sellOrders) ~> ~Crossing(buyOrders, sellOrders)
  /\ [][(Called("processOrder") /\ Crossing(buyOrders, sellOrders)) =>
          /\ ret'.err = NoError
          /\ OpenQuantity(buyOrders', sellOrders')
               < OpenQuantity(buyOrders, sellOrders)
          /\ ~Traded => RemovedWithoutReplacement]_vars
  /\ [][~Called("addOrder") =>
          OpenQuantity(buyOrders', sellOrders')
            <= OpenQuantity(buyOrders, sellOrders)]_vars

C15_Witness ==
  /\ ret.op = "processOrder"
  /\ ret.err = NoError
  /\ ~Crossing(buyOrders, sellOrders)
  /\ Len(history) = 2
  /\ OpenQuantity(buyOrders, sellOrders) = 1
  /\ added = MaxDeepOrders

\* ---- C16 ------------------------------------------------------------------
\* C16: in every reachable state every order stored in buyOrders or in
\* sellOrders has quantity > 0, the orders submitted by addOrder and the
\* remainders that processOrder puts back after a partial fill alike.
C16_StoredQuantityPositive ==
  /\ \A i \in DOMAIN buyOrders : buyOrders[i].quantity > 0
  /\ \A i \in DOMAIN sellOrders : sellOrders[i].quantity > 0

\* a remainder of a partial fill is stored next to the record of its trade
C16_Witness ==
  /\ Len(history) = 1
  /\ history[1].quantity = 1
  /\ \E o \in Range(buyOrders) \cup Range(sellOrders) :
       /\ o.quantity = MaxQty - 1
       /\ o.account \in {history[1].buyer, history[1].seller}

\* ---- C17 ------------------------------------------------------------------
\* order a is strictly ahead of order b in the price-time priority of a side
Ahead(action, a, b) ==
  \/ IF action = BUY THEN a.price > b.price ELSE a.price < b.price
  \/ a.price = b.price /\ a.time < b.time

Count(s, o) == Cardinality({i \in DOMAIN s : s[i] = o})

\* r holds the first min(n, size) orders of the book in priority order
IsBestN(r, n, action, book) ==
  /\ Len(r) = IF n < Len(book) THEN n ELSE Len(book)
  /\ \A i, j \in DOMAIN r : i < j => ~Ahead(action, r[j], r[i])
  /\ \A x \in Range(r) : Count(r, x) <= Count(book, x)
  /\ \A x \in Range(book) :
       Count(r, x) < Count(book, x) =>
         \A i \in DOMAIN r : ~Ahead(action, x, r[i])
  /\ r # <<>> => r[1] = BestOf(action, book)

\* C17: for every book and every n >= 0, getBestNBuyOrders(n) and
\* getBestNSellOrders(n) return the first min(n, book size) orders of their
\* side in price-time priority order, so that the first element, when there
\* is one, is the order getBestBuyOrder / getBestSellOrder returns; on an
\* empty book they return the empty list and raise no error. The call keeps
\* the contents of the books.
C17_BestN ==
  [][\A n \in 0..MaxN :
       /\ getBestNBuyOrdersOf(n) =>
            /\ ret'.err = NoError
            /\ IsBestN(ret'.val, n, BUY, buyOrders)
            /\ BagOf(buyOrders') = BagOf(buyOrders)
       /\ getBestNSellOrdersOf(n) =>
            /\ ret'.err = NoError
            /\ IsBestN(ret'.val, n, SELL, sellOrders)
            /\ BagOf(sellOrders') = BagOf(sellOrders)]_vars

\* one of two asks was returned, the cheaper one, which was submitted last
C17_Witness ==
  /\ ret.op = "getBestNSellOrders"
  /\ Len(sellOrders) = 2
  /\ Len(ret.val) = 1
  /\ ret.val[1].price < sellOrders[2].price
  /\ ret.val[1].time > sellOrders[2].time

\* ---- C18 ------------------------------------------------------------------
\* C18: in every reachable state getOrdersByAccount(account) returns exactly
\* the open orders of that account, each as often as the books hold it, and
\* no order of another account, with all of the account's bids before all of
\* its asks; it changes nothing.
C18_OrdersByAccount ==
  [][\A account \in 1..MaxUsers :
       getOrdersByAccountOf(account) =>
         /\ ret'.err = NoError
         /\ \A x \in Range(ret'.val) : x.account = account
         /\ \A x \in Range(buyOrders) \cup Range(sellOrders) \cup Range(ret'.val) :
              x.account = account =>
                Count(ret'.val, x) = Count(buyOrders, x) + Count(sellOrders, x)
         /\ \A i, j \in DOMAIN ret'.val :
              i < j => ~(ret'.val[i].action = SELL /\ ret'.val[j].action = BUY)
         /\ UNCHANGED <<buyOrders, sellOrders, users, history, overheadMade>>]_vars

\* the account asked for owns a bid and an ask
C18_Witness ==
  /\ ret.op = "getOrdersByAccount"
  /\ Len(ret.val) = 2
  /\ ret.val[1].action = BUY
  /\ ret.val[2].action = SELL
  /\ buyOrders = <<ret.val[1]>>
  /\ sellOrders = <<ret.val[2]>>

\* ---- C19 ------------------------------------------------------------------
\* book t is book s without one occurrence of its best order o and, iff the
\* fill qty is below o's quantity, with one order more that has o's account,
\* price, side and timestamp and the quantity left
IsBookAfterFill(t, s, o, qty) ==
  LET rest == Order(o.account, o.price, o.quantity - qty, o.action, o.time)
      partial == qty < o.quantity
  IN /\ Len(t) = Len(s) - 1 + (IF partial THEN 1 ELSE 0)
     /\ \A x \in Range(s) \cup Range(t) \cup {rest} :
          Count(t, x) = Count(s, x) - (IF x = o THEN 1 ELSE 0)
                          + (IF partial /\ x = rest THEN 1 ELSE 0)

\* C19: after a processOrder step that trades quantity qty, the bid array
\* holds the previous bids without the best bid and, if and only if qty is
\* below the best bid's quantity, one new bid with the same account, price
\* and timestamp and the quantity left; the same holds for the asks and the
\* best ask; no other order is added, removed or altered.
C19_BooksAfterTrade ==
  [][Traded =>
       LET qty == LastTrade(history').quantity
       IN /\ IsBookAfterFill(buyOrders', buyOrders,
                             BestOf(BUY, buyOrders), qty)
          /\ IsBookAfterFill(sellOrders', sellOrders,
                             BestOf(SELL, sellOrders), qty)]_vars

\* one trade left a remainder on both sides, next to a third order
C19_Witness ==
  /\ ret.op = "processOrder"
  /\ Len(history) = 1
  /\ history[1].quantity = 1
  /\ history[1].buyer # history[1].seller
  /\ Len(buyOrders) + Len(sellOrders) = 3
  /\ \E b \in Range(buyOrders), a \in Range(sellOrders) :
       /\ b.account = history[1].buyer
       /\ b.price = history[1].buyPrice
       /\ b.quantity = MaxQty - history[1].quantity
       /\ a.account = history[1].seller
       /\ a.price = history[1].sellPrice
       /\ a.quantity = MaxQty - history[1].quantity

\* ---- C20 ------------------------------------------------------------------
\* C20: in every processOrder step that trades, the traded quantity is at
\* most the quantity of the best bid and at most the quantity of the best
\* ask, also when the seller's stock is below the ask's quantity.
C20_QuantityWithinBothOrders ==
  [][Traded =>
       /\ LastTrade(history').quantity <= BestOf(BUY, buyOrders).quantity
       /\ LastTrade(history').quantity <= BestOf(SELL, sellOrders).quantity]_vars

\* ---- C21 ------------------------------------------------------------------
RECURSIVE SumMoney(_)
SumMoney(us) ==
  IF us = <<>> THEN 0 ELSE us[1].money + SumMoney(Tail(us))

\* C21: on every step that is not an addUser call (addOrder, processOrder,
\* the queries, the clock) the sum of all accounts' money plus overheadMade
\* stays the same: money leaves circulation only as overhead and is never
\* created, also when the best bid and the best ask belong to one account.
C21_MoneyConserved ==
  [][Len(users') = Len(users) =>
       SumMoney(users') + overheadMade' = SumMoney(users) + overheadMade]_vars

\* ---- C22 ------------------------------------------------------------------
RECURSIVE SumStock(_)
SumStock(us) ==
  IF us = <<>> THEN 0 ELSE us[1].stock + SumStock(Tail(us))

\* C22: on every step that is not an addUser call the sum of all accounts'
\* stock stays the same: a trade only moves units from the seller to the
\* buyer, also when the best bid and the best ask belong to one account.
C22_StockConserved ==
  [][Len(users') = Len(users) => SumStock(users') = SumStock(users)]_vars

\* ---- C23 ------------------------------------------------------------------
\* C23: every record of the history has quantity >= 1 and a buyPrice
\* strictly above its sellPrice, so no trade of quantity zero is recorded;
\* overheadMade strictly increases on every step that records a trade and
\* no step decreases it.
C23_RecordsArePositive ==
  /\ [](\A i \in DOMAIN history :
          /\ history[i].quantity >= 1
          /\ history[i].buyPrice > history[i].sellPrice)
  /\ [][Len(history') > Len(history) => overheadMade' > overheadMade]_vars
  /\ [][overheadMade' >= overheadMade]_vars

\* two trades are recorded, the first at the smallest price difference and
\* the smallest quantity, the second at the largest price difference
C23_Witness ==
  /\ Len(history) = 2
  /\ history[1].quantity = 1
  /\ history[1].buyPrice = history[1].sellPrice + 1
  /\ history[2].buyPrice = history[2].sellPrice + MaxPrice
  /\ overheadMade = 1 + MaxPrice * history[2].quantity

====
